---- MODULE Spec2Model ----
(***************************************************************************)
(* State-machine model of the HTMLPlayer playback core:                    *)
(*   - AudioPlayer / TrackNavigator / PlayerState   (Build/src/player.ts)  *)
(*   - audio cache, blob URL table, position store  (Build/src/storage.ts) *)
(*   - the application store                        (Build/src/main.ts)    *)
(*   - the track list click handler                 (unnamed/part_008)     *)
(* JavaScript runs one callback at a time, so every action below is one    *)
(* synchronous segment of a handler: from its start (or from the point an  *)
(* await resumes) to the next await on real I/O.                           *)
(***************************************************************************)
EXTENDS Integers, Sequences, FiniteSets, TLC

\* ------------------------------------------------------------------ universe
Tracks == {"A", "B", "C"}          \* track urls (the cache, position and navigation key)
None == "none"                    \* null
NoPos == -1                       \* no record in the 'playback' store

MaxLoads == 3                     \* loads/resolves started in one run
MaxQueue == 2                     \* engine callbacks waiting to be delivered
MaxCat == 3                       \* longest catalogue
MaxToggles == 2                   \* play/pause presses counted in a row
MaxSweeps == 2                    \* runs of the periodic blob url cleanup

MB == 1024 * 1024
DefaultMaxCacheSize == 500
BlobSizesMB == {4, 6, 11}         \* sizes of fetched payloads, in MB
Budgets == {10}                   \* maxCacheSize settings tried, in MB
ProgressValues == {0, 50, 100}    \* values of the progress bar, in percent
TrackDuration == 4                \* howl.duration() of a loaded sound
TickOffsets == {0, 3}             \* values of howl.seek() read by the progress timer


DEFAULT_SETTINGS == [cacheEnabled |-> TRUE, maxCacheSize |-> DefaultMaxCacheSize,
                     autoCleanup |-> TRUE]

VARIABLES
  \* application store (zustand)
  storeTrack,        \* AppState.currentTrack
  storeIsPlaying,    \* AppState.isPlaying
  \* AudioPlayer fields
  howl,              \* id of the bound engine instance, 0 = null
  currentTrackUrl,
  isTransitioning,
  intervalId,        \* id of the progress timer the player remembers, 0 = null
  isShuffleMode,
  isRepeatMode,
  \* browser / engine side
  timers,            \* the setInterval timers that are scheduled
  engines,           \* every Howl instance constructed so far
  queue,             \* onplay/onpause/onstop callbacks emitted, not yet delivered (FIFO)
  tasks,             \* asynchronous loads / resolves and where each is suspended
  \* storage.ts
  blobUrls,          \* the blobUrls map: track -> blob url id, 0 = no entry
  lastUsed,          \* the blobUrls map: track -> lastUsed, in cleanup intervals
  urlCount,          \* blob urls created so far by URL.createObjectURL
  revoked,           \* blob urls revoked
  audioblobs,        \* 'audioblobs' store: track -> [size, timestamp], size 0 = no entry
  playback,          \* 'playback' store: track -> position, NoPos = no entry
  playbackTime,      \* 'playback' store: track -> timestamp against the retention window
  prune,             \* optimizeDatabase: where it is suspended and the keys it has to visit
  settings,          \* 'settings' store merged over DEFAULT_SETTINGS
  trackDb,           \* 'tracks' store in createdAt order: [url, deleted]
  blobSize,          \* bytes the network serves for each track
  clock,             \* Date.now()
  sweeps,            \* Date.now() in whole blob url cleanup intervals
  \* observation
  errors,            \* console.error calls made by the handler that ran last
  selections,        \* explicit track selections made so far
  failedTrack,       \* track whose load failed since the last explicit selection
  toggles,           \* play/pause presses in a row, with nothing in between
  ppBefore,          \* play/pause state before the first press of the row
  navResult,         \* what the navigator returned last
  lastAccess,        \* when each cached entry was last written or read
  seekReq,           \* the offset the progress bar asked for in the last step
  subscribed,        \* AudioPlayer.unsubscribe is set: the store subscriber is registered
  log,               \* the calls the handler that ran last made on timer, engine and storage
  ended              \* the engine whose onend ran in the last step, and what the navigator gave

vars == <<storeTrack, storeIsPlaying, howl, currentTrackUrl, isTransitioning,
          intervalId, isShuffleMode, isRepeatMode, timers, engines, queue, tasks,
          blobUrls, urlCount, revoked, audioblobs, playback, settings, trackDb,
          blobSize, clock, errors, selections, failedTrack, toggles, ppBefore,
          navResult, lastUsed, sweeps, lastAccess, seekReq, subscribed, log, ended,
          playbackTime, prune>>

storeVars == <<storeTrack, storeIsPlaying>>
playerVars == <<howl, currentTrackUrl, isTransitioning, intervalId, timers, engines,
                queue, tasks, blobUrls, lastUsed, revoked>>
modeVars == <<isShuffleMode, isRepeatMode>>
cacheVars == <<audioblobs, settings, blobSize, clock, sweeps, lastAccess>>
positionVars == <<playback, playbackTime, prune>>
ghostVars == <<selections, failedTrack, toggles, ppBefore, seekReq, log, ended>>

\* ------------------------------------------------------------------ helpers
Sum(f, S) ==
  LET RECURSIVE Acc(_)
      Acc(T) == IF T = {} THEN 0
                ELSE LET x == CHOOSE y \in T : TRUE IN f[x] + Acc(T \ {x})
  IN Acc(S)

NoEntry == [size |-> 0, timestamp |-> 0]

\* ------------------------------------------------------------------ catalogue and navigator
\* loadTracks(true): every track of the store, the deleted ones too
LoadTracksAll ==
  [i \in 1..Len(trackDb) |-> trackDb[i].url]

\* loadTracks(): the tracks that are not deleted, in createdAt order
LoadTracks ==
  LET live == SelectSeq(trackDb, LAMBDA t : ~t.deleted)
  IN [i \in 1..Len(live) |-> live[i].url]

\* Array.findIndex, 0-based, -1 when absent
FindIndex(tr, url) ==
  IF \E i \in 1..Len(tr) : tr[i] = url
  THEN (CHOOSE i \in 1..Len(tr) : tr[i] = url /\ \A j \in 1..(i - 1) : tr[j] # url) - 1
  ELSE -1

\* getRandomTrack with the do-while test lost: any track, the excluded one too
GetRandomTrackAny(tr, excludeUrl) ==
  IF Len(tr) <= 1
  THEN {IF Len(tr) = 1 THEN tr[1] ELSE ""}
  ELSE {tr[i] : i \in 1..Len(tr)}

\* getRandomTrack: the urls Math.random() can make it return
GetRandomTrack(tr, excludeUrl) ==
  IF Len(tr) <= 1
  THEN {IF Len(tr) = 1 THEN tr[1] ELSE ""}
  ELSE {tr[i] : i \in {j \in 1..Len(tr) : tr[j] # excludeUrl}}

\* getNextTrack with the wraparound forgotten: the last track is followed by itself
GetNextTrackNoWrap(cur) ==
  LET tr == LoadTracks
      currentIndex == FindIndex(tr, cur)
      nextIndex == IF currentIndex = -1 THEN 0
                   ELSE IF currentIndex + 1 < Len(tr) THEN currentIndex + 1 ELSE currentIndex
  IN IF Len(tr) = 0 THEN {None}
     ELSE IF isShuffleMode THEN GetRandomTrack(tr, cur)
     ELSE {tr[nextIndex + 1]}

\* getNextTrack answering null for a key that is not found
GetNextTrackNullOnMiss(cur) ==
  LET tr == LoadTracks
      currentIndex == FindIndex(tr, cur)
      nextIndex == (currentIndex + 1) % Len(tr)
  IN IF Len(tr) = 0 \/ currentIndex = -1 THEN {None}
     ELSE IF isShuffleMode THEN GetRandomTrack(tr, cur)
     ELSE {tr[nextIndex + 1]}

\* getNextTrack: the set of values it can return (a singleton unless shuffling)
GetNextTrack(cur) ==
  LET tr == LoadTracks
      currentIndex == FindIndex(tr, cur)
      nextIndex == IF currentIndex = -1 THEN 0 ELSE (currentIndex + 1) % Len(tr)
  IN IF Len(tr) = 0 THEN {None}
     ELSE IF isShuffleMode THEN GetRandomTrack(tr, cur)
     ELSE {tr[nextIndex + 1]}

\* getPreviousTrack without the special case for a key that is not found
GetPreviousTrackMinusOne(cur) ==
  LET tr == LoadTracks
      currentIndex == FindIndex(tr, cur)
      prevIndex == (currentIndex - 1 + 2 * Len(tr)) % Len(tr)
  IN IF Len(tr) = 0 THEN {None}
     ELSE IF isShuffleMode THEN GetRandomTrack(tr, cur)
     ELSE {tr[prevIndex + 1]}

\* getPreviousTrack: the set of values it can return
GetPreviousTrack(cur) ==
  LET tr == LoadTracks
      currentIndex == FindIndex(tr, cur)
      prevIndex == IF currentIndex = -1 THEN Len(tr) - 1
                   ELSE (currentIndex - 1 + Len(tr)) % Len(tr)
  IN IF Len(tr) = 0 THEN {None}
     ELSE IF isShuffleMode THEN GetRandomTrack(tr, cur)
     ELSE {tr[prevIndex + 1]}

\* ------------------------------------------------------------------ audio engine (Howl)
\* One Howl instance.  saved is the savedPosition its callbacks closed over; pos is
\* the offset last given to seek(); started / posAtStart record the first play();
\* sel is the number of the selection it was constructed for.
NewEngine(t, u, sp, sel) ==
  [track |-> t, src |-> u, state |-> "loading", playing |-> FALSE, queued |-> FALSE,
   saved |-> sp, pos |-> NoPos, started |-> FALSE, posAtStart |-> NoPos, sel |-> sel]

Live(e) == e.state # "unloaded"

\* howl.playing()
EnginePlaying(e) == e.state = "loaded" /\ e.playing

\* howl.seek(p): applied, or queued until the load completes
EngineSeek(e, p) ==
  IF e.state \in {"loading", "loaded"} THEN [e EXCEPT !.pos = p] ELSE e

\* howl.play(): starts a loaded sound, is queued on one that is still loading
EnginePlay(e) ==
  LET f == IF e.started THEN e ELSE [e EXCEPT !.started = TRUE, !.posAtStart = e.pos]
  IN IF e.state = "loaded" THEN [f EXCEPT !.playing = TRUE]
     ELSE IF e.state = "loading" THEN [f EXCEPT !.queued = TRUE]
     ELSE e

\* howl.pause()
EnginePause(e) == IF e.state = "loaded" THEN [e EXCEPT !.playing = FALSE] ELSE e

\* howl.stop(); howl.unload()
EngineStopUnload(e) == [e EXCEPT !.state = "unloaded", !.playing = FALSE, !.queued = FALSE]

\* ------------------------------------------------------------------ player state as a value
\* The fields a store notification can touch, gathered so that handlers compose.
\* sel numbers the explicit selection being served; ok turns FALSE when a bound
\* of the model would be exceeded.  pending holds the subscriber runs suspended at
\* "await this.cleanupCurrentTrack()": each resumes, in order, once the handler that
\* wrote the store has returned.
St ==
  [storeTrack |-> storeTrack, storeIsPlaying |-> storeIsPlaying, howl |-> howl,
   currentTrackUrl |-> currentTrackUrl, isTransitioning |-> isTransitioning,
   intervalId |-> intervalId, timers |-> timers, engines |-> engines, queue |-> queue,
   tasks |-> tasks, blobUrls |-> blobUrls, lastUsed |-> lastUsed, revoked |-> revoked,
   subscribed |-> subscribed, pending |-> <<>>, log |-> <<>>,
   sel |-> selections, ok |-> TRUE]

\* the engine emits a callback: it is delivered later, in order
Emit(s, ev) ==
  IF Len(s.queue) < MaxQueue
  THEN [s EXCEPT !.queue = Append(@, ev)]
  ELSE [s EXCEPT !.ok = FALSE]

\* this.howl.play() / this.howl?.play()
HowlPlay(s) ==
  IF s.howl = 0 THEN s
  ELSE LET e == s.engines[s.howl]
           t == [s EXCEPT !.engines[s.howl] = EnginePlay(e)]
       IN IF e.state = "loaded" /\ ~e.playing THEN Emit(t, "play") ELSE t

\* this.howl.pause()
HowlPause(s) ==
  LET e == s.engines[s.howl]
      t == [s EXCEPT !.engines[s.howl] = EnginePause(e)]
  IN IF e.state = "loaded" /\ e.playing THEN Emit(t, "pause") ELSE t

\* this.howl.seek(p)
HowlSeek(s, p) ==
  IF s.howl = 0 THEN s ELSE [s EXCEPT !.engines[s.howl] = EngineSeek(@, p)]

\* revokeAudioBlobUrl
RevokeAudioBlobUrl(s, t) ==
  IF s.blobUrls[t] # 0
  THEN [s EXCEPT !.revoked = @ \cup {s.blobUrls[t]}, !.blobUrls[t] = 0,
                 !.lastUsed[t] = 0]
  ELSE s

\* cleanupCurrentTrack
CleanupCurrentTrack(s) ==
  LET s1 == [s EXCEPT !.isTransitioning = TRUE]
      s2 == IF s1.intervalId # 0
            THEN [s1 EXCEPT !.timers = @ \ {s1.intervalId}, !.intervalId = 0,
                            !.log = Append(@, "clearInterval")]
            ELSE s1
      s3 == IF s2.howl # 0
            THEN LET e == s2.engines[s2.howl]
                     u == [s2 EXCEPT !.engines[s2.howl] = EngineStopUnload(e), !.howl = 0,
                                     !.log = @ \o <<"stop", "unload">>]
                 IN IF e.state = "loaded" THEN Emit(u, "stop") ELSE u
            ELSE s2
  IN IF s3.currentTrackUrl # None
     THEN RevokeAudioBlobUrl([s3 EXCEPT !.log = Append(@, "revoke")], s3.currentTrackUrl)
     ELSE s3

\* a new asynchronous load or resolve, suspended at its first await on I/O
NewTask(t, pc, u, sel, owner) ==
  [track |-> t, pc |-> pc, url |-> u, sel |-> sel, evict |-> FALSE, owner |-> owner,
   pos |-> NoPos]

\* getAudioBlobUrl without the look into blobUrls: every call goes to the cache
StartResolveNoTable(s, t, owner) ==
  IF Len(s.tasks) >= MaxLoads THEN [s EXCEPT !.ok = FALSE]
  ELSE [s EXCEPT !.tasks = Append(@, NewTask(t, "lookup", 0, s.sel, owner)),
                 !.log = Append(@, "resolve")]

\* getAudioBlobUrl up to its first await: a hit in blobUrls sets lastUsed and
\* returns at once
StartResolve(s, t, owner) ==
  IF Len(s.tasks) >= MaxLoads THEN [s EXCEPT !.ok = FALSE]
  ELSE IF s.blobUrls[t] # 0
       THEN [s EXCEPT !.tasks = Append(@, NewTask(t, IF owner = "player" THEN "resolved"
                                                      ELSE "done", s.blobUrls[t], s.sel, owner)),
                      !.lastUsed[t] = sweeps,
                      !.log = Append(@, "resolve")]
       ELSE [s EXCEPT !.tasks = Append(@, NewTask(t, "lookup", 0, s.sel, owner)),
                      !.log = Append(@, "resolve")]

\* loadNewTrack up to its first await on I/O
LoadNewTrack(s, t) == StartResolve(s, t, "player")

\* the subscriber runs suspended at "await this.cleanupCurrentTrack()" resume in the
\* order they were suspended, each with the store state it was notified with
RECURSIVE Flush(_)
Flush(s) ==
  IF s.pending = <<>> THEN s
  ELSE LET t == Head(s.pending)
           r == [s EXCEPT !.pending = Tail(@)]
       IN Flush(IF t # None
                THEN LoadNewTrack(r, t)
                ELSE [r EXCEPT !.currentTrackUrl = None, !.isTransitioning = FALSE])

\* the handler has returned: what it left suspended runs, and the result is the
\* next state
Commit(s) ==
  LET f == Flush(s)
  IN /\ f.ok
     /\ storeTrack' = f.storeTrack
     /\ storeIsPlaying' = f.storeIsPlaying
     /\ howl' = f.howl
     /\ currentTrackUrl' = f.currentTrackUrl
     /\ isTransitioning' = f.isTransitioning
     /\ intervalId' = f.intervalId
     /\ timers' = f.timers
     /\ engines' = f.engines
     /\ queue' = f.queue
     /\ tasks' = f.tasks
     /\ blobUrls' = f.blobUrls
     /\ lastUsed' = f.lastUsed
     /\ revoked' = f.revoked
     /\ subscribed' = f.subscribed
     /\ log' = f.log

\* the store subscriber of subscribeToStore with the load issued ahead of the teardown
SubscriberLoadFirst(s) ==
  IF ~s.subscribed \/ s.storeTrack = s.currentTrackUrl THEN s
  ELSE IF s.storeTrack # None
       THEN CleanupCurrentTrack(LoadNewTrack(s, s.storeTrack))
       ELSE [CleanupCurrentTrack(s) EXCEPT !.pending = Append(@, s.storeTrack)]

\* the store subscriber of subscribeToStore, run on every store write while it is
\* registered: the teardown runs at once, the rest after the await
Subscriber(s) ==
  IF ~s.subscribed \/ s.storeTrack = s.currentTrackUrl THEN s
  ELSE [CleanupCurrentTrack(s) EXCEPT !.pending = Append(@, s.storeTrack)]

\* store.setCurrentTrack / setIsPlaying / setTheme: set(...) then notify subscribers
SetCurrentTrack(s, t) == Subscriber([s EXCEPT !.storeTrack = t])
SetIsPlaying(s, b) == Subscriber([s EXCEPT !.storeIsPlaying = b])
SetThemeStore(s) == Subscriber(s)

\* handlePlayPause with the resume branch lost: a paused sound stays paused
HandlePlayPauseNoResume(s) ==
  IF s.storeTrack = None THEN s
  ELSE IF s.howl = 0 THEN SetCurrentTrack(s, s.storeTrack)
  ELSE IF ~s.isTransitioning
       THEN IF EnginePlaying(s.engines[s.howl]) THEN HowlPause(s) ELSE s
       ELSE s

\* handlePlayPause
HandlePlayPause(s) ==
  IF s.storeTrack = None THEN s
  ELSE IF s.howl = 0 THEN SetCurrentTrack(s, s.storeTrack)
  ELSE IF ~s.isTransitioning
       THEN IF EnginePlaying(s.engines[s.howl]) THEN HowlPause(s) ELSE HowlPlay(s)
       ELSE s

\* the play/pause state: what the store publishes and what the bound engine does
PlayState(s) ==
  [isPlaying |-> s.storeIsPlaying,
   playing |-> s.howl # 0 /\ EnginePlaying(s.engines[s.howl])]

NoPP == [isPlaying |-> FALSE, playing |-> FALSE]
NoNav == [op |-> "none", cur |-> None, url |-> None]
NoEnd == [op |-> "none", engine |-> 0, next |-> None]

\* what a step that is no play/pause press leaves for the observer: the number of
\* console.error calls it made, and the end of any row of presses
Obs(n) ==
  errors' = n /\ toggles' = 0 /\ ppBefore' = NoPP /\ seekReq' = NoPos /\ ended' = NoEnd

\* the same for a step that is no handler of the player
ObsQ(n) == Obs(n) /\ log' = <<>> /\ subscribed' = subscribed

\* ------------------------------------------------------------------ storage.ts
\* getAudioCacheSize
GetAudioCacheSize(cache) == Sum([t \in Tracks |-> cache[t].size], Tracks)

\* settings.maxCacheSize || 500, in bytes
MaxSizeBytes(st) ==
  (IF st.maxCacheSize = 0 THEN DefaultMaxCacheSize ELSE st.maxCacheSize) * MB

\* cleanupOldCache: delete entries, oldest timestamp first, until freedSpace >= requiredSpace
RECURSIVE CleanupLoop(_, _, _)
CleanupLoop(cache, freedSpace, requiredSpace) ==
  LET keys == {t \in Tracks : cache[t].size > 0}
  IN IF freedSpace >= requiredSpace \/ keys = {} THEN cache
     ELSE LET k == CHOOSE t \in keys : \A u \in keys : cache[t].timestamp <= cache[u].timestamp
          IN CleanupLoop([cache EXCEPT ![k] = NoEntry], freedSpace + cache[k].size,
                         requiredSpace)

CleanupOldCache(cache, requiredSpace) == CleanupLoop(cache, 0, requiredSpace)

\* data?.position || null
LoadPlaybackPosition(t) == IF playback[t] = NoPos \/ playback[t] = 0 THEN NoPos ELSE playback[t]

\* where a task goes once getAudioBlobUrl has returned
AfterResolve(t) == IF t.owner = "player" THEN "resolved" ELSE "done"

\* URL.createObjectURL(blob); blobUrls.set(trackUrl, ...): the end of getAudioBlobUrl
CreateBlobUrl(i) ==
  /\ urlCount' = urlCount + 1
  /\ blobUrls' = [blobUrls EXCEPT ![tasks[i].track] = urlCount + 1]
  /\ lastUsed' = [lastUsed EXCEPT ![tasks[i].track] = sweeps]
  /\ tasks' = [tasks EXCEPT ![i].pc = AfterResolve(tasks[i]), ![i].url = urlCount + 1]

\* ------------------------------------------------------------------ user and store events
\* the click handler of a track list item: setCurrentTrack(url); setIsPlaying(true)
ClickTrack(t) ==
  /\ selections < MaxLoads
  /\ \E i \in 1..Len(LoadTracks) : LoadTracks[i] = t
  /\ Commit(SetIsPlaying(SetCurrentTrack([St EXCEPT !.sel = selections + 1], t), TRUE))
  /\ selections' = selections + 1
  /\ failedTrack' = None
  /\ Obs(0)
  /\ UNCHANGED <<modeVars, urlCount, cacheVars, positionVars, trackDb, navResult>>

\* handleNext
HandleNext ==
  /\ ~isTransitioning
  /\ selections < MaxLoads
  /\ \E n \in GetNextTrack(currentTrackUrl) :
       /\ n \notin {None, ""}
       /\ Commit(SetCurrentTrack([St EXCEPT !.sel = selections + 1], n))
  /\ selections' = selections + 1
  /\ failedTrack' = None
  /\ Obs(0)
  /\ UNCHANGED <<modeVars, urlCount, cacheVars, positionVars, trackDb, navResult>>

\* handlePrevious
HandlePrevious ==
  /\ ~isTransitioning
  /\ selections < MaxLoads
  /\ \E n \in GetPreviousTrack(currentTrackUrl) :
       /\ n \notin {None, ""}
       /\ Commit(SetCurrentTrack([St EXCEPT !.sel = selections + 1], n))
  /\ selections' = selections + 1
  /\ failedTrack' = None
  /\ Obs(0)
  /\ UNCHANGED <<modeVars, urlCount, cacheVars, positionVars, trackDb, navResult>>

\* the play/pause button
PressPlayPause ==
  /\ toggles < MaxToggles
  /\ Commit(HandlePlayPause(St))
  /\ toggles' = toggles + 1
  /\ ppBefore' = IF toggles = 0 THEN PlayState(St) ELSE ppBefore
  /\ errors' = 0
  /\ seekReq' = NoPos
  /\ ended' = NoEnd
  /\ UNCHANGED <<modeVars, urlCount, cacheVars, positionVars, trackDb, navResult,
                 selections, failedTrack>>

\* the settings panel writes another field of the store: setTheme(theme)
SetTheme ==
  /\ Commit(SetThemeStore(St))
  /\ Obs(0)
  /\ UNCHANGED <<modeVars, urlCount, cacheVars, positionVars, trackDb, navResult,
                 selections, failedTrack>>

\* ------------------------------------------------------------------ getAudioBlobUrl, step by step
\* loadSettings and getCachedAudioBlob have answered
CacheLookup(i) ==
  /\ tasks[i].pc = "lookup"
  /\ IF settings.cacheEnabled
     THEN IF audioblobs[tasks[i].track].size > 0
          THEN /\ CreateBlobUrl(i)
               /\ lastAccess' = [lastAccess EXCEPT ![tasks[i].track] = clock]
          ELSE /\ tasks' = [tasks EXCEPT ![i].pc = "fetch"]
               /\ UNCHANGED <<urlCount, blobUrls, lastUsed, lastAccess>>
     ELSE /\ tasks' = [tasks EXCEPT ![i].pc = "fetchNC"]
          /\ UNCHANGED <<urlCount, blobUrls, lastUsed, lastAccess>>
  /\ ObsQ(0)
  /\ UNCHANGED <<storeVars, howl, currentTrackUrl, isTransitioning, intervalId, timers,
                 engines, queue, revoked, modeVars, audioblobs, settings, blobSize, clock,
                 sweeps, positionVars, trackDb, navResult, selections, failedTrack>>

\* fetch(trackUrl) answered ok and response.blob() is there
FetchOk(i) ==
  /\ tasks[i].pc \in {"fetch", "fetchNC"}
  /\ IF tasks[i].pc = "fetch"
     THEN /\ tasks' = [tasks EXCEPT ![i].pc = "cacheCheck"]
          /\ UNCHANGED <<urlCount, blobUrls, lastUsed>>
     ELSE CreateBlobUrl(i)
  /\ ObsQ(0)
  /\ UNCHANGED <<storeVars, howl, currentTrackUrl, isTransitioning, intervalId, timers,
                 engines, queue, revoked, modeVars, cacheVars, positionVars, trackDb,
                 navResult, selections, failedTrack>>

\* a failing fetch after the entry was written ahead of the answer
FetchFailAfterWrite(i) ==
  /\ tasks[i].pc \in {"fetch", "fetchNC"}
  /\ tasks' = [tasks EXCEPT ![i].pc = "failed"]
  /\ audioblobs' = [audioblobs EXCEPT ![tasks[i].track] =
                      [size |-> blobSize[tasks[i].track], timestamp |-> clock]]
  /\ IF tasks[i].owner = "player"
     THEN /\ ObsQ(IF tasks[i].pc = "fetch" THEN 2 ELSE 1)
          /\ currentTrackUrl' = None
          /\ howl' = 0
          /\ isTransitioning' = FALSE
          /\ failedTrack' = tasks[i].track
     ELSE /\ ObsQ(IF tasks[i].pc = "fetch" THEN 1 ELSE 0)
          /\ UNCHANGED <<currentTrackUrl, howl, isTransitioning, failedTrack>>
  /\ UNCHANGED <<storeVars, intervalId, timers, engines, queue, blobUrls, lastUsed,
                 revoked, urlCount, modeVars, settings, blobSize, clock, sweeps,
                 lastAccess, positionVars, trackDb, navResult, selections>>

\* fetch rejected or answered a non-OK status: getAudioBlobUrl throws; inside
\* loadNewTrack the catch block runs
FetchFail(i) ==
  /\ tasks[i].pc \in {"fetch", "fetchNC"}
  /\ tasks' = [tasks EXCEPT ![i].pc = "failed"]
  /\ IF tasks[i].owner = "player"
     THEN /\ ObsQ(IF tasks[i].pc = "fetch" THEN 2 ELSE 1)
          /\ currentTrackUrl' = None
          /\ howl' = 0
          /\ isTransitioning' = FALSE
          /\ failedTrack' = tasks[i].track
     ELSE /\ ObsQ(IF tasks[i].pc = "fetch" THEN 1 ELSE 0)
          /\ UNCHANGED <<currentTrackUrl, howl, isTransitioning, failedTrack>>
  /\ UNCHANGED <<storeVars, intervalId, timers, engines, queue, blobUrls, lastUsed,
                 revoked, urlCount, modeVars, cacheVars, positionVars, trackDb, navResult,
                 selections>>

\* cacheAudioBlob: loadSettings and getAudioCacheSize have answered
CacheCheck(i) ==
  /\ tasks[i].pc = "cacheCheck"
  /\ IF ~settings.cacheEnabled
     THEN CreateBlobUrl(i)
     ELSE /\ tasks' = [tasks EXCEPT
                 ![i].pc = "cachePut",
                 ![i].evict = /\ GetAudioCacheSize(audioblobs) + blobSize[tasks[i].track]
                                   > MaxSizeBytes(settings)
                              /\ settings.autoCleanup]
          /\ UNCHANGED <<urlCount, blobUrls, lastUsed>>
  /\ ObsQ(0)
  /\ UNCHANGED <<storeVars, howl, currentTrackUrl, isTransitioning, intervalId, timers,
                 engines, queue, revoked, modeVars, cacheVars, positionVars, trackDb,
                 navResult, selections, failedTrack>>

\* cacheAudioBlob: cleanupOldCache (when decided) and db.put, then the blob url is made
CachePut(i) ==
  /\ tasks[i].pc = "cachePut"
  /\ LET t == tasks[i].track
         kept == IF tasks[i].evict THEN CleanupOldCache(audioblobs, blobSize[t])
                 ELSE audioblobs
     IN /\ audioblobs' = [kept EXCEPT ![t] = [size |-> blobSize[t], timestamp |-> clock]]
        /\ lastAccess' = [u \in Tracks |-> IF u = t THEN clock
                                            ELSE IF kept[u].size = 0 THEN 0
                                            ELSE lastAccess[u]]
  /\ clock' = clock + 1
  /\ CreateBlobUrl(i)
  /\ ObsQ(0)
  /\ UNCHANGED <<storeVars, howl, currentTrackUrl, isTransitioning, intervalId, timers,
                 engines, queue, revoked, modeVars, settings, blobSize, sweeps, positionVars,
                 trackDb, navResult, selections, failedTrack>>

\* the caches cleanupOldCache passes through, one delete after the other
RECURSIVE CleanupStates(_, _, _)
CleanupStates(cache, freedSpace, requiredSpace) ==
  LET keys == {t \in Tracks : cache[t].size > 0}
  IN IF freedSpace >= requiredSpace \/ keys = {} THEN {cache}
     ELSE LET k == CHOOSE t \in keys : \A u \in keys : cache[t].timestamp <= cache[u].timestamp
          IN {cache} \cup CleanupStates([cache EXCEPT ![k] = NoEntry],
                                        freedSpace + cache[k].size, requiredSpace)

\* a failure inside cacheAudioBlob that is thrown on to the caller of getAudioBlobUrl
CachePutThrows(i) ==
  /\ tasks[i].pc = "cachePut"
  /\ tasks' = [tasks EXCEPT ![i].pc = "failed"]
  /\ IF tasks[i].owner = "player"
     THEN /\ ObsQ(2)
          /\ currentTrackUrl' = None
          /\ howl' = 0
          /\ isTransitioning' = FALSE
          /\ failedTrack' = tasks[i].track
     ELSE /\ ObsQ(1)
          /\ UNCHANGED <<currentTrackUrl, howl, isTransitioning, failedTrack>>
  /\ UNCHANGED <<storeVars, intervalId, timers, engines, queue, blobUrls, lastUsed,
                 revoked, urlCount, modeVars, cacheVars, positionVars, trackDb, navResult,
                 selections>>

\* cacheAudioBlob: a delete of cleanupOldCache or the db.put fails; withErrorHandling
\* logs and answers false, and getAudioBlobUrl goes on to make the blob url
CachePutFail(i) ==
  /\ tasks[i].pc = "cachePut"
  /\ \E kept \in (IF tasks[i].evict
                  THEN CleanupStates(audioblobs, 0, blobSize[tasks[i].track])
                  ELSE {audioblobs}) :
       /\ audioblobs' = kept
       /\ lastAccess' = [u \in Tracks |-> IF kept[u].size = 0 THEN 0 ELSE lastAccess[u]]
  /\ CreateBlobUrl(i)
  /\ ObsQ(1)
  /\ UNCHANGED <<storeVars, howl, currentTrackUrl, isTransitioning, intervalId, timers,
                 engines, queue, revoked, modeVars, settings, blobSize, clock, sweeps,
                 positionVars, trackDb, navResult, selections, failedTrack>>

\* ------------------------------------------------------------------ loadNewTrack, after the awaits
\* loadNewTrack binding the new engine without taking over its track url
ConstructStaleKey(i) ==
  /\ tasks[i].pc = "resolved"
  /\ tasks' = [tasks EXCEPT ![i].pc = "done"]
  /\ engines' = Append(engines, NewEngine(tasks[i].track, tasks[i].url,
                                          LoadPlaybackPosition(tasks[i].track),
                                          tasks[i].sel))
  /\ howl' = Len(engines) + 1
  /\ ObsQ(0)
  /\ UNCHANGED <<storeVars, currentTrackUrl, isTransitioning, intervalId, timers, queue,
                 blobUrls, lastUsed, revoked, urlCount, modeVars, cacheVars, positionVars,
                 trackDb, navResult, selections, failedTrack>>

\* loadPlaybackPosition has answered: new Howl({...}); this.currentTrackUrl = trackUrl
Construct(i) ==
  /\ tasks[i].pc = "resolved"
  /\ tasks' = [tasks EXCEPT ![i].pc = "done"]
  /\ engines' = Append(engines, NewEngine(tasks[i].track, tasks[i].url,
                                          LoadPlaybackPosition(tasks[i].track),
                                          tasks[i].sel))
  /\ howl' = Len(engines) + 1
  /\ currentTrackUrl' = tasks[i].track
  /\ ObsQ(0)
  /\ UNCHANGED <<storeVars, isTransitioning, intervalId, timers, queue, blobUrls, lastUsed,
                 revoked, urlCount, modeVars, cacheVars, positionVars, trackDb, navResult,
                 selections, failedTrack>>

\* ------------------------------------------------------------------ engine callbacks
\* the sound has loaded: Howler runs what was queued on it, then onload
OnLoad(e) ==
  /\ engines[e].state = "loading"
  /\ LET s0 == [St EXCEPT !.engines[e].state = "loaded",
                          !.engines[e].playing = engines[e].queued,
                          !.engines[e].queued = FALSE]
         s1 == IF engines[e].queued THEN Emit(s0, "play") ELSE s0
         s2 == [s1 EXCEPT !.isTransitioning = FALSE]
         s3 == IF engines[e].saved # NoPos /\ s2.howl # 0
               THEN HowlSeek(s2, engines[e].saved) ELSE s2
         s4 == HowlPlay(s3)
         s5 == [s4 EXCEPT !.intervalId = e, !.timers = @ \cup {e}]
     IN Commit(s5)
  /\ Obs(0)
  /\ UNCHANGED <<modeVars, urlCount, cacheVars, positionVars, trackDb, navResult,
                 selections, failedTrack>>

\* onloaderror that logs and leaves isTransitioning as it is
OnLoadErrorKeepsFlag(e) ==
  /\ engines[e].state = "loading"
  /\ engines' = [engines EXCEPT ![e].state = "error", ![e].queued = FALSE]
  /\ ObsQ(1)
  /\ failedTrack' = engines[e].track
  /\ UNCHANGED <<storeVars, howl, currentTrackUrl, isTransitioning, intervalId, timers,
                 queue, tasks, blobUrls, lastUsed, revoked, modeVars, urlCount, cacheVars,
                 positionVars, trackDb, navResult, selections>>

\* the sound could not be loaded or decoded: onloaderror
OnLoadError(e) ==
  /\ engines[e].state = "loading"
  /\ engines' = [engines EXCEPT ![e].state = "error", ![e].queued = FALSE]
  /\ ObsQ(1)
  /\ isTransitioning' = FALSE
  /\ failedTrack' = engines[e].track
  /\ UNCHANGED <<storeVars, howl, currentTrackUrl, intervalId, timers, queue, tasks,
                 blobUrls, lastUsed, revoked, modeVars, urlCount, cacheVars, positionVars, trackDb,
                 navResult, selections>>

\* onplay / onpause / onstop: the oldest emitted callback is delivered
Deliver ==
  /\ queue # <<>>
  /\ Commit(SetIsPlaying([St EXCEPT !.queue = Tail(queue)], Head(queue) = "play"))
  /\ Obs(0)
  /\ UNCHANGED <<modeVars, urlCount, cacheVars, positionVars, trackDb, navResult,
                 selections, failedTrack>>

\* the sound played to its end: onend -> handleTrackEnd
OnEnd(e) ==
  /\ EnginePlaying(engines[e])
  /\ LET s0 == [St EXCEPT !.engines[e].playing = FALSE, !.sel = selections + 1]
     IN IF isRepeatMode
        THEN /\ Commit(HowlPlay(s0))
             /\ ended' = [op |-> "repeat", engine |-> e, next |-> None]
             /\ UNCHANGED selections
        ELSE /\ selections < MaxLoads
             /\ selections' = selections + 1
             /\ \E n \in GetNextTrack(currentTrackUrl) :
                  /\ ended' = [op |-> "next", engine |-> e, next |-> n]
                  /\ IF n \notin {None, ""}
                     THEN Commit(SetCurrentTrack(s0, n))
                     ELSE Commit(SetIsPlaying(SetCurrentTrack(s0, None), FALSE))
  /\ errors' = 0
  /\ toggles' = 0
  /\ ppBefore' = NoPP
  /\ seekReq' = NoPos
  /\ UNCHANGED <<modeVars, urlCount, cacheVars, positionVars, trackDb, navResult,
                 failedTrack>>

\* createWaveform / createCustomVisualizer call getAudioBlobUrl(url) on their own
ResolveDirect(t) ==
  /\ Commit(StartResolve(St, t, "direct"))
  /\ Obs(0)
  /\ UNCHANGED <<modeVars, urlCount, cacheVars, positionVars, trackDb, navResult,
                 selections, failedTrack>>

\* the periodic cleanup of blobUrls: every entry not used for more than one interval
\* is revoked and deleted
Sweep ==
  /\ sweeps < MaxSweeps
  /\ LET old == {t \in Tracks : blobUrls[t] # 0 /\ lastUsed[t] < sweeps}
     IN /\ revoked' = revoked \cup {blobUrls[t] : t \in old}
        /\ blobUrls' = [t \in Tracks |-> IF t \in old THEN 0 ELSE blobUrls[t]]
        /\ lastUsed' = [t \in Tracks |-> IF t \in old THEN 0 ELSE lastUsed[t]]
  /\ sweeps' = sweeps + 1
  /\ ObsQ(0)
  /\ UNCHANGED <<storeVars, howl, currentTrackUrl, isTransitioning, intervalId, timers,
                 engines, queue, tasks, modeVars, urlCount, audioblobs, settings, blobSize,
                 clock, lastAccess, positionVars, trackDb, navResult, selections, failedTrack>>

\* clearAudioCache up to its await on db.clear('audioblobs')
ClearAudioCache ==
  /\ Len(tasks) < MaxLoads
  /\ tasks' = Append(tasks, NewTask(None, "clear", 0, selections, "settings"))
  /\ ObsQ(0)
  /\ UNCHANGED <<storeVars, howl, currentTrackUrl, isTransitioning, intervalId, timers,
                 engines, queue, blobUrls, lastUsed, revoked, modeVars, urlCount, cacheVars,
                 positionVars, trackDb, navResult, selections, failedTrack>>

\* the store has been cleared: clearAudioCache revokes and deletes every blob url
ClearDone(i) ==
  /\ tasks[i].pc = "clear"
  /\ tasks' = [tasks EXCEPT ![i].pc = "done"]
  /\ audioblobs' = [t \in Tracks |-> NoEntry]
  /\ lastAccess' = [t \in Tracks |-> 0]
  /\ revoked' = revoked \cup {blobUrls[t] : t \in {u \in Tracks : blobUrls[u] # 0}}
  /\ blobUrls' = [t \in Tracks |-> 0]
  /\ lastUsed' = [t \in Tracks |-> 0]
  /\ ObsQ(0)
  /\ UNCHANGED <<storeVars, howl, currentTrackUrl, isTransitioning, intervalId, timers,
                 engines, queue, modeVars, urlCount, settings, blobSize, clock, sweeps,
                 positionVars, trackDb, navResult, selections, failedTrack>>

\* howl.duration(): 0 until the sound has loaded
EngineDuration(e) == IF e.state = "loaded" THEN TrackDuration ELSE 0

\* (ui.getProgressValue() / 100) * howl.duration()
SeekOffset(e, v) == (v * EngineDuration(e)) \div 100

\* handleProgressChange with the isTransitioning test lost
HandleProgressChangeAlways(s, v) ==
  IF s.howl # 0
  THEN HowlSeek(s, SeekOffset(s.engines[s.howl], v))
  ELSE s

\* handleProgressChange
HandleProgressChange(s, v) ==
  IF s.howl # 0 /\ ~s.isTransitioning
  THEN HowlSeek(s, SeekOffset(s.engines[s.howl], v))
  ELSE s

\* the progress bar was dragged to v
ProgressInput(v) ==
  /\ Commit(HandleProgressChange(St, v))
  /\ seekReq' = v
  /\ ended' = NoEnd
  /\ errors' = 0
  /\ toggles' = 0
  /\ ppBefore' = NoPP
  /\ UNCHANGED <<modeVars, urlCount, cacheVars, positionVars, trackDb, navResult,
                 selections, failedTrack>>

\* the repeat and shuffle buttons: playerState.toggleRepeat() / toggleShuffle()
ToggleRepeat ==
  /\ isRepeatMode' = ~isRepeatMode
  /\ ObsQ(0)
  /\ UNCHANGED <<storeVars, playerVars, isShuffleMode, urlCount, cacheVars, positionVars, trackDb,
                 navResult, selections, failedTrack>>

ToggleShuffle ==
  /\ isShuffleMode' = ~isShuffleMode
  /\ ObsQ(0)
  /\ UNCHANGED <<storeVars, playerVars, isRepeatMode, urlCount, cacheVars, positionVars, trackDb,
                 navResult, selections, failedTrack>>

\* the delete button of a track list item: saveTrack({...track, deleted: true})
DeleteTrack(t) ==
  /\ \E i \in 1..Len(trackDb) : trackDb[i].url = t /\ ~trackDb[i].deleted
  /\ trackDb' = [i \in 1..Len(trackDb) |->
                   IF trackDb[i].url = t THEN [trackDb[i] EXCEPT !.deleted = TRUE]
                   ELSE trackDb[i]]
  /\ ObsQ(0)
  /\ UNCHANGED <<storeVars, playerVars, modeVars, urlCount, cacheVars, positionVars,
                 navResult, selections, failedTrack>>

\* loadPlaybackPosition failed (the 'playback' store cannot be read): withErrorHandling
\* logs and answers null, and loadNewTrack goes on: new Howl({...});
\* this.currentTrackUrl = trackUrl.  The task ends as "doneReadFailed".
ConstructReadFail(i) ==
  /\ tasks[i].pc = "resolved"
  /\ tasks' = [tasks EXCEPT ![i].pc = "doneReadFailed"]
  /\ engines' = Append(engines, NewEngine(tasks[i].track, tasks[i].url, NoPos, tasks[i].sel))
  /\ howl' = Len(engines) + 1
  /\ currentTrackUrl' = tasks[i].track
  /\ ObsQ(1)
  /\ UNCHANGED <<storeVars, isTransitioning, intervalId, timers, queue, blobUrls, lastUsed,
                 revoked, urlCount, modeVars, cacheVars, positionVars, trackDb, navResult,
                 selections, failedTrack>>

\* a progress timer fires and the debounced updateProgress runs with howl.seek() = p:
\* savePlaybackPosition is called, up to its await on the database
Tick(p) ==
  /\ timers # {}
  /\ IF howl # 0 /\ EnginePlaying(engines[howl]) /\ ~isTransitioning /\ currentTrackUrl # None
     THEN /\ Len(tasks) < MaxLoads
          /\ tasks' = Append(tasks, [NewTask(currentTrackUrl, "savePos", 0, selections, "timer")
                                       EXCEPT !.pos = p])
     ELSE UNCHANGED tasks
  /\ ObsQ(0)
  /\ UNCHANGED <<storeVars, howl, currentTrackUrl, isTransitioning, intervalId, timers,
                 engines, queue, blobUrls, lastUsed, revoked, urlCount, modeVars, cacheVars,
                 positionVars, trackDb, navResult, selections, failedTrack>>

\* a put made after the request optimizeDatabase waits for runs after that request
PutMayRun(i) == prune.pc \in {"get", "delete"} => i <= prune.issued

\* db.put('playback', {position, ...}, trackId) has answered
SaveDone(i) ==
  /\ tasks[i].pc = "savePos"
  /\ PutMayRun(i)
  /\ tasks' = [tasks EXCEPT ![i].pc = "saved"]
  /\ playback' = [playback EXCEPT ![tasks[i].track] = tasks[i].pos]
  /\ playbackTime' = [playbackTime EXCEPT ![tasks[i].track] = "recent"]
  /\ UNCHANGED prune
  /\ ObsQ(0)
  /\ UNCHANGED <<storeVars, howl, currentTrackUrl, isTransitioning, intervalId, timers,
                 engines, queue, blobUrls, lastUsed, revoked, urlCount, modeVars, cacheVars,
                 trackDb, navResult, selections, failedTrack>>

\* db.put('playback', ...) failed: withErrorHandling logs and answers false
SaveFail(i) ==
  /\ tasks[i].pc = "savePos"
  /\ PutMayRun(i)
  /\ tasks' = [tasks EXCEPT ![i].pc = "saveFailed"]
  /\ ObsQ(1)
  /\ UNCHANGED <<storeVars, howl, currentTrackUrl, isTransitioning, intervalId, timers,
                 engines, queue, blobUrls, lastUsed, revoked, urlCount, modeVars, cacheVars,
                 positionVars, trackDb, navResult, selections, failedTrack>>

\* destroy(): unsubscribe from the store, then cleanupCurrentTrack()
Destroy ==
  /\ Commit(CleanupCurrentTrack([St EXCEPT !.subscribed = FALSE]))
  /\ Obs(0)
  /\ UNCHANGED <<modeVars, urlCount, cacheVars, positionVars, trackDb, navResult,
                 selections, failedTrack>>

\* db.getAllKeys('playback'), in key order
PlaybackKeys == SelectSeq(<<"A", "B", "C">>, LAMBDA t : playback[t] # NoPos)

\* optimizeDatabase goes on to the key after the one it has dealt with
PruneAdvance ==
  [pc |-> IF Len(prune.keys) > 1 THEN "get" ELSE "done", keys |-> Tail(prune.keys),
   issued |-> Len(tasks)]

\* IndexedDB runs the requests on the 'playback' store in the order they were made:
\* the request optimizeDatabase waits for runs after the puts made before it
PruneMayRun == \A i \in 1..Len(tasks) : i <= prune.issued => tasks[i].pc # "savePos"

\* what a step of optimizeDatabase leaves alone
PruneFrame ==
  /\ ObsQ(0)
  /\ UNCHANGED <<storeVars, playerVars, modeVars, urlCount, cacheVars, trackDb, navResult,
                 selections, failedTrack>>

\* optimizeDatabase: thirtyDaysAgo is taken and getAllKeys('playback') has answered
OptimizeStart ==
  /\ prune.pc = "idle"
  /\ prune' = [pc |-> IF PlaybackKeys = <<>> THEN "done" ELSE "get", keys |-> PlaybackKeys,
               issued |-> Len(tasks)]
  /\ UNCHANGED <<playback, playbackTime>>
  /\ PruneFrame

\* db.get('playback', key) has answered: data?.timestamp && data.timestamp < thirtyDaysAgo
OptimizeGet ==
  /\ prune.pc = "get"
  /\ PruneMayRun
  /\ prune' = IF playbackTime[Head(prune.keys)] = "old"
              THEN [prune EXCEPT !.pc = "delete", !.issued = Len(tasks)]
              ELSE PruneAdvance
  /\ UNCHANGED <<playback, playbackTime>>
  /\ PruneFrame

\* db.delete('playback', key) has answered
OptimizeDelete ==
  /\ prune.pc = "delete"
  /\ PruneMayRun
  /\ playback' = [playback EXCEPT ![Head(prune.keys)] = NoPos]
  /\ playbackTime' = [playbackTime EXCEPT ![Head(prune.keys)] = "none"]
  /\ prune' = PruneAdvance
  /\ PruneFrame

\* the navigator asked for the track after / before cur
NavNext(cur) ==
  /\ \E r \in GetNextTrack(cur) : navResult' = [op |-> "next", cur |-> cur, url |-> r]
  /\ UNCHANGED <<storeVars, playerVars, modeVars, urlCount, cacheVars, positionVars, trackDb,
                 errors, ghostVars, subscribed>>

NavPrevious(cur) ==
  /\ \E r \in GetPreviousTrack(cur) : navResult' = [op |-> "previous", cur |-> cur, url |-> r]
  /\ UNCHANGED <<storeVars, playerVars, modeVars, urlCount, cacheVars, positionVars, trackDb,
                 errors, ghostVars, subscribed>>

\* ------------------------------------------------------------------ specifications
Catalogue == <<[url |-> "A", deleted |-> FALSE], [url |-> "B", deleted |-> FALSE]>>

\* every 'tracks' store of at most MaxCat tracks with distinct urls
TrackDbs ==
  LET Urls == UNION {{u \in [1..n -> Tracks] : \A i, j \in 1..n : u[i] = u[j] => i = j}
                     : n \in 0..MaxCat}
  IN UNION {{[i \in 1..Len(u) |-> [url |-> u[i], deleted |-> d[i]]]
             : d \in [1..Len(u) -> BOOLEAN]} : u \in Urls}

\* optimizeDatabase has not been called
NoPrune == [pc |-> "idle", keys |-> <<>>, issued |-> 0]

\* the timestamps of position records written within the retention window
Stamped(pb) == [t \in Tracks |-> IF pb[t] = NoPos THEN "none" ELSE "recent"]

\* the state right after construction, stores aside
InitPlayer ==
  /\ storeTrack = None
  /\ storeIsPlaying = FALSE
  /\ howl = 0
  /\ currentTrackUrl = None
  /\ isTransitioning = FALSE
  /\ intervalId = 0
  /\ isRepeatMode = FALSE
  /\ timers = {}
  /\ engines = <<>>
  /\ queue = <<>>
  /\ tasks = <<>>
  /\ blobUrls = [t \in Tracks |-> 0]
  /\ lastUsed = [t \in Tracks |-> 0]
  /\ sweeps = 0
  /\ seekReq = NoPos
  /\ subscribed = TRUE
  /\ log = <<>>
  /\ ended = NoEnd
  /\ urlCount = 0
  /\ revoked = {}
  /\ errors = 0
  /\ selections = 0
  /\ failedTrack = None
  /\ toggles = 0
  /\ ppBefore = NoPP
  /\ navResult = NoNav
  /\ prune = NoPrune

\* positions left in the 'playback' store by earlier sessions
SavedPositions == [t \in Tracks |-> IF t = "A" THEN 1 ELSE IF t = "B" THEN 2 ELSE NoPos]

\* first run with the default settings: nothing cached yet
Init ==
  /\ InitPlayer
  /\ isShuffleMode = FALSE
  /\ audioblobs = [t \in Tracks |-> NoEntry]
  /\ clock = 1
  /\ lastAccess = [t \in Tracks |-> audioblobs[t].timestamp]
  /\ playback = SavedPositions
  /\ playbackTime = Stamped(playback)
  /\ settings = DEFAULT_SETTINGS
  /\ trackDb = Catalogue
  /\ blobSize = [t \in Tracks |-> 6 * MB]

Next ==
  \/ \E t \in Tracks : ClickTrack(t)
  \/ HandleNext
  \/ HandlePrevious
  \/ SetTheme
  \/ \E i \in 1..Len(tasks) : CacheLookup(i)
  \/ \E i \in 1..Len(tasks) : FetchOk(i)
  \/ \E i \in 1..Len(tasks) : FetchFail(i)
  \/ \E i \in 1..Len(tasks) : CacheCheck(i)
  \/ \E i \in 1..Len(tasks) : CachePut(i)
  \/ \E i \in 1..Len(tasks) : Construct(i)
  \/ \E e \in 1..Len(engines) : OnLoad(e)
  \/ \E e \in 1..Len(engines) : OnLoadError(e)
  \/ Deliver
  \/ \E e \in 1..Len(engines) : OnEnd(e)

\* selections, loads and engine callbacks in every interleaving
Spec == Init /\ [][Next]_vars

\* a later run: one track of the catalogue is in the audio cache already
InitCached ==
  /\ InitPlayer
  /\ isShuffleMode = FALSE
  /\ audioblobs = [t \in Tracks |-> IF t = "B" THEN [size |-> 6 * MB, timestamp |-> 1]
                                    ELSE NoEntry]
  /\ clock = 2
  /\ lastAccess = [t \in Tracks |-> audioblobs[t].timestamp]
  /\ playback = SavedPositions
  /\ playbackTime = Stamped(playback)
  /\ settings = DEFAULT_SETTINGS
  /\ trackDb = Catalogue
  /\ blobSize = [t \in Tracks |-> 6 * MB]

NextToggle ==
  \/ HandleNext
  \/ PressPlayPause
  \/ \E i \in 1..Len(tasks) : CacheLookup(i)
  \/ \E i \in 1..Len(tasks) : FetchOk(i)
  \/ \E i \in 1..Len(tasks) : FetchFail(i)
  \/ \E i \in 1..Len(tasks) : CacheCheck(i)
  \/ \E i \in 1..Len(tasks) : CachePut(i)
  \/ \E i \in 1..Len(tasks) : Construct(i)
  \/ \E e \in 1..Len(engines) : OnLoad(e)
  \/ \E e \in 1..Len(engines) : OnLoadError(e)
  \/ Deliver

\* the play/pause button against selections, loads and engine callbacks
SpecToggle == InitCached /\ [][NextToggle]_vars

\* the audio cache under a small budget, payload sizes drawn per track
InitCache ==
  /\ InitPlayer
  /\ isShuffleMode = FALSE
  /\ audioblobs = [t \in Tracks |-> NoEntry]
  /\ clock = 1
  /\ lastAccess = [t \in Tracks |-> audioblobs[t].timestamp]
  /\ playback = [t \in Tracks |-> NoPos]
  /\ playbackTime = Stamped(playback)
  /\ \E b \in Budgets : settings = [DEFAULT_SETTINGS EXCEPT !.maxCacheSize = b]
  /\ trackDb = Catalogue
  /\ \E z \in [Tracks -> BlobSizesMB] : blobSize = [t \in Tracks |-> z[t] * MB]

NextCache ==
  \/ \E t \in Tracks : ResolveDirect(t)
  \/ \E i \in 1..Len(tasks) : CacheLookup(i)
  \/ \E i \in 1..Len(tasks) : FetchOk(i)
  \/ \E i \in 1..Len(tasks) : FetchFail(i)
  \/ \E i \in 1..Len(tasks) : CacheCheck(i)
  \/ \E i \in 1..Len(tasks) : CachePut(i)

\* resolves of getAudioBlobUrl interleaved at their awaits
SpecCache == InitCache /\ [][NextCache]_vars

\* a later session under a small budget: two entries of 4 MB are in the audio cache,
\* the blob url table is empty again
InitWarm ==
  /\ InitPlayer
  /\ isShuffleMode = FALSE
  /\ audioblobs = [t \in Tracks |-> IF t = "A" THEN [size |-> 4 * MB, timestamp |-> 1]
                                    ELSE IF t = "B" THEN [size |-> 4 * MB, timestamp |-> 2]
                                    ELSE NoEntry]
  /\ clock = 3
  /\ lastAccess = [t \in Tracks |-> audioblobs[t].timestamp]
  /\ playback = [t \in Tracks |-> NoPos]
  /\ playbackTime = Stamped(playback)
  /\ \E b \in Budgets : settings = [DEFAULT_SETTINGS EXCEPT !.maxCacheSize = b]
  /\ trackDb = Catalogue
  /\ \E z \in BlobSizesMB : blobSize = [t \in Tracks |-> IF t = "C" THEN z * MB ELSE 4 * MB]

\* resolves against a cache that earlier sessions filled
SpecWarm == InitWarm /\ [][NextCache]_vars

\* a session with the periodic cleanup and the "clear cache" button
NextHandles ==
  \/ HandleNext
  \/ \E t \in Tracks : ResolveDirect(t)
  \/ \E i \in 1..Len(tasks) : CacheLookup(i)
  \/ \E i \in 1..Len(tasks) : FetchOk(i)
  \/ \E i \in 1..Len(tasks) : CacheCheck(i)
  \/ \E i \in 1..Len(tasks) : CachePut(i)
  \/ \E i \in 1..Len(tasks) : Construct(i)
  \/ \E e \in 1..Len(engines) : OnLoad(e)
  \/ Deliver
  \/ Sweep
  \/ ClearAudioCache
  \/ \E i \in 1..Len(tasks) : ClearDone(i)

SpecHandles == InitCached /\ [][NextHandles]_vars

\* a session in which the progress bar is dragged
NextSeek ==
  \/ HandleNext
  \/ \E v \in ProgressValues : ProgressInput(v)
  \/ \E i \in 1..Len(tasks) : CacheLookup(i)
  \/ \E i \in 1..Len(tasks) : FetchOk(i)
  \/ \E i \in 1..Len(tasks) : CacheCheck(i)
  \/ \E i \in 1..Len(tasks) : CachePut(i)
  \/ \E i \in 1..Len(tasks) : Construct(i)
  \/ \E e \in 1..Len(engines) : OnLoad(e)
  \/ \E e \in 1..Len(engines) : OnLoadError(e)
  \/ Deliver

SpecSeek == InitCached /\ [][NextSeek]_vars

\* positions left by earlier runs; the one of A lies beyond what the sound at that url
\* lasts now
StalePositions == [t \in Tracks |-> IF t = "A" THEN TrackDuration + 1
                                    ELSE IF t = "B" THEN 2 ELSE NoPos]

\* a later run whose 'playback' store holds a position past the end of a track
InitStale ==
  /\ InitPlayer
  /\ isShuffleMode = FALSE
  /\ audioblobs = [t \in Tracks |-> IF t = "B" THEN [size |-> 6 * MB, timestamp |-> 1]
                                    ELSE NoEntry]
  /\ clock = 2
  /\ lastAccess = [t \in Tracks |-> audioblobs[t].timestamp]
  /\ playback = StalePositions
  /\ playbackTime = Stamped(playback)
  /\ settings = DEFAULT_SETTINGS
  /\ trackDb = Catalogue
  /\ blobSize = [t \in Tracks |-> 6 * MB]

SpecStale == InitStale /\ [][NextSeek]_vars

\* sessions that play to their end, with the repeat button and the delete buttons
NextEnd ==
  \/ HandleNext
  \/ ToggleRepeat
  \/ ToggleShuffle
  \/ \E t \in Tracks : DeleteTrack(t)
  \/ \E i \in 1..Len(tasks) : CacheLookup(i)
  \/ \E i \in 1..Len(tasks) : FetchOk(i)
  \/ \E i \in 1..Len(tasks) : CacheCheck(i)
  \/ \E i \in 1..Len(tasks) : CachePut(i)
  \/ \E i \in 1..Len(tasks) : Construct(i)
  \/ \E e \in 1..Len(engines) : OnLoad(e)
  \/ Deliver
  \/ \E e \in 1..Len(engines) : OnEnd(e)

SpecEnd == InitCached /\ [][NextEnd]_vars

\* sessions with their progress timers, the position store failing at will, and
\* destroy()
NextTimers ==
  \/ HandleNext
  \/ Destroy
  \/ \E p \in TickOffsets : Tick(p)
  \/ \E i \in 1..Len(tasks) : SaveDone(i)
  \/ \E i \in 1..Len(tasks) : SaveFail(i)
  \/ \E i \in 1..Len(tasks) : CacheLookup(i)
  \/ \E i \in 1..Len(tasks) : FetchOk(i)
  \/ \E i \in 1..Len(tasks) : CacheCheck(i)
  \/ \E i \in 1..Len(tasks) : CachePut(i)
  \/ \E i \in 1..Len(tasks) : Construct(i)
  \/ \E i \in 1..Len(tasks) : ConstructReadFail(i)
  \/ \E e \in 1..Len(engines) : OnLoad(e)
  \/ \E e \in 1..Len(engines) : OnLoadError(e)
  \/ Deliver

SpecTimers == InitCached /\ [][NextTimers]_vars

\* sessions against an audio cache whose deletes and puts fail at will
NextFaulty ==
  \/ HandleNext
  \/ \E i \in 1..Len(tasks) : CacheLookup(i)
  \/ \E i \in 1..Len(tasks) : FetchOk(i)
  \/ \E i \in 1..Len(tasks) : CacheCheck(i)
  \/ \E i \in 1..Len(tasks) : CachePut(i)
  \/ \E i \in 1..Len(tasks) : CachePutFail(i)
  \/ \E i \in 1..Len(tasks) : Construct(i)
  \/ \E e \in 1..Len(engines) : OnLoad(e)
  \/ Deliver

SpecFaulty == InitCache /\ [][NextFaulty]_vars

\* a later run: the position of A was written before the retention window began, the
\* one of B within it
InitPrune ==
  /\ InitPlayer
  /\ isShuffleMode = FALSE
  /\ audioblobs = [t \in Tracks |-> IF t = "B" THEN [size |-> 6 * MB, timestamp |-> 1]
                                    ELSE NoEntry]
  /\ clock = 2
  /\ lastAccess = [t \in Tracks |-> audioblobs[t].timestamp]
  /\ playback = SavedPositions
  /\ playbackTime = [Stamped(playback) EXCEPT !["A"] = "old"]
  /\ settings = DEFAULT_SETTINGS
  /\ trackDb = Catalogue
  /\ blobSize = [t \in Tracks |-> 6 * MB]

\* optimizeDatabase running beside sessions that save their positions
NextPrune ==
  \/ HandleNext
  \/ OptimizeStart
  \/ OptimizeGet
  \/ OptimizeDelete
  \/ \E p \in TickOffsets : Tick(p)
  \/ \E i \in 1..Len(tasks) : SaveDone(i)
  \/ \E i \in 1..Len(tasks) : CacheLookup(i)
  \/ \E i \in 1..Len(tasks) : FetchOk(i)
  \/ \E i \in 1..Len(tasks) : CacheCheck(i)
  \/ \E i \in 1..Len(tasks) : CachePut(i)
  \/ \E i \in 1..Len(tasks) : Construct(i)
  \/ \E e \in 1..Len(engines) : OnLoad(e)
  \/ Deliver

SpecPrune == InitPrune /\ [][NextPrune]_vars

\* selections that overlap, with fetches and engine loads that succeed or fail
NextLive ==
  \/ \E t \in Tracks : ClickTrack(t)
  \/ HandleNext
  \/ \E i \in 1..Len(tasks) : CacheLookup(i)
  \/ \E i \in 1..Len(tasks) : FetchOk(i)
  \/ \E i \in 1..Len(tasks) : FetchFail(i)
  \/ \E i \in 1..Len(tasks) : CacheCheck(i)
  \/ \E i \in 1..Len(tasks) : CachePut(i)
  \/ \E i \in 1..Len(tasks) : Construct(i)
  \/ \E e \in 1..Len(engines) : OnLoad(e)
  \/ \E e \in 1..Len(engines) : OnLoadError(e)
  \/ Deliver

\* what the event loop still has to run: the answer of an await on I/O, the load of an
\* engine that is not torn down, an engine callback
Progress ==
  \/ \E i \in 1..Len(tasks) :
       \/ CacheLookup(i) \/ FetchOk(i) \/ FetchFail(i)
       \/ CacheCheck(i) \/ CachePut(i) \/ Construct(i)
  \/ \E e \in 1..Len(engines) : OnLoad(e) \/ OnLoadError(e)
  \/ Deliver

Pending ==
  \/ \E i \in 1..Len(tasks) :
       tasks[i].pc \in {"lookup", "fetch", "fetchNC", "cacheCheck", "cachePut", "resolved"}
  \/ \E e \in 1..Len(engines) : engines[e].state = "loading"
  \/ queue # <<>>

\* weak fairness of the pending steps, WF_vars(Progress) with the enabling condition
\* written out: every fetch completes, every engine that is not torn down reports
\* loaded or a load error, every callback is delivered
Fairness == []<>(~Pending) \/ []<><<Progress>>_vars

SpecLive == InitCached /\ [][NextLive]_vars /\ Fairness

\* the navigator as a function of the catalogue, the current key and the shuffle flag
InitNav ==
  /\ InitPlayer
  /\ isShuffleMode \in BOOLEAN
  /\ audioblobs = [t \in Tracks |-> NoEntry]
  /\ clock = 1
  /\ lastAccess = [t \in Tracks |-> audioblobs[t].timestamp]
  /\ playback = [t \in Tracks |-> NoPos]
  /\ playbackTime = Stamped(playback)
  /\ settings = DEFAULT_SETTINGS
  /\ trackDb \in TrackDbs
  /\ blobSize = [t \in Tracks |-> 6 * MB]

NextNav ==
  \/ \E cur \in Tracks \cup {None} : NavNext(cur)
  \/ \E cur \in Tracks \cup {None} : NavPrevious(cur)

SpecNav == InitNav /\ [][NextNav]_vars

\* the navigator over a catalogue whose tracks get deleted between the calls
NextCatalogue ==
  \/ \E cur \in Tracks \cup {None} : NavNext(cur)
  \/ \E cur \in Tracks \cup {None} : NavPrevious(cur)
  \/ \E t \in Tracks : DeleteTrack(t)

SpecCatalogue == InitNav /\ [][NextCatalogue]_vars

\* ------------------------------------------------------------------ properties
LiveEngines == {e \in 1..Len(engines) : Live(engines[e])}

\* nothing is in flight: every load has ended, every engine has answered, every
\* emitted callback has been delivered
Settled ==
  /\ queue = <<>>
  /\ \A i \in 1..Len(tasks) : tasks[i].pc \in {"done", "failed"}
  /\ \A e \in 1..Len(engines) : engines[e].state # "loading"

\* the track selected last has been loaded, and no load of it failed or was torn down
LastSelectionLoaded ==
  /\ selections > 0
  /\ storeTrack # None
  /\ \A i \in 1..Len(tasks) : tasks[i].track = storeTrack => tasks[i].pc = "done"
  /\ \A e \in 1..Len(engines) : engines[e].track = storeTrack => engines[e].state = "loaded"
  /\ \E e \in 1..Len(engines) : engines[e].track = storeTrack

\* C1: in every reachable state at most one engine instance exists that has been
\* constructed and not yet stopped and unloaded.
C1_AtMostOneLiveEngine == Cardinality(LiveEngines) <= 1

\* C2: once every pending fetch and engine callback has completed, the bound engine
\* and the controller's current track are those of the last selected track.
C2_LastSelectionWins ==
  (Settled /\ LastSelectionLoaded)
    => /\ howl # 0
       /\ engines[howl].track = storeTrack
       /\ currentTrackUrl = storeTrack

\* a load of an earlier selection ends in this step (its engine is constructed or its
\* fetch fails)
StaleLoadEnds(i) ==
  /\ tasks[i].owner = "player"
  /\ tasks[i].sel < selections
  /\ tasks[i].pc \notin {"done", "failed"}
  /\ tasks'[i].pc \in {"done", "failed"}

\* the engine of an earlier selection reports loaded in this step
StaleEngineLoads(e) ==
  /\ engines[e].sel < selections
  /\ engines[e].state = "loading"
  /\ engines'[e].state = "loaded"

\* C3: a load whose selection has been superseded has no effect when it completes: it
\* binds no engine, starts no playback, seeks no engine, starts no progress timer, and
\* leaves the current track and the transitioning flag alone.
C3_SupersededLoadHasNoEffect ==
  [][/\ \A i \in 1..Len(tasks) :
          StaleLoadEnds(i) => UNCHANGED <<howl, currentTrackUrl, isTransitioning>>
     /\ \A e \in 1..Len(engines) :
          StaleEngineLoads(e) =>
            /\ UNCHANGED <<isTransitioning, timers, intervalId>>
            /\ \A f \in 1..Len(engines) : f # e => engines'[f] = engines[f]]_vars

\* C4: after any sequence of resolves with caching enabled, also interleaved at their
\* awaits, the sizes in the audio cache add up to at most maxCacheSize.
C4_CacheWithinBudget == GetAudioCacheSize(audioblobs) <= MaxSizeBytes(settings)

\* the fetch of a load of the player fails in this step
FetchFails ==
  \E i \in 1..Len(tasks) :
    /\ tasks[i].owner = "player"
    /\ tasks[i].pc \in {"fetch", "fetchNC"}
    /\ tasks'[i].pc = "failed"

\* C5: when resolve fails while a selected track is loading, no engine is bound, the
\* transitioning flag is clear, and exactly one error is surfaced.
C5_FetchFailureEndsIdle ==
  [][FetchFails => (howl' = 0 /\ ~isTransitioning' /\ errors' = 1)]_vars

\* C6: after a load has failed, no further load is started until the user selects a
\* track, whatever else happens (a selection, also the automatic one at a track's
\* end, is a step that changes selections).
C6_NoRetryAfterFailure ==
  [][(failedTrack # None /\ failedTrack' # None /\ selections' = selections)
       => Len(tasks') = Len(tasks)]_vars

C8_SeekBeforePlay ==
  \A e \in 1..Len(engines) :
    (engines[e].started /\ engines[e].saved # NoPos)
      => engines[e].posAtStart = engines[e].saved

\* the 1-based place of url in the catalogue tr, 0 when it is absent
Place(tr, url) ==
  IF \E i \in 1..Len(tr) : tr[i] = url THEN CHOOSE i \in 1..Len(tr) : tr[i] = url ELSE 0

\* C9: with shuffle off and n > 0 tracks, next returns the track at (i+1) mod n for the
\* current key at index i, and the first track when the key is not in the catalogue.
C9_NextIsOrdinalSuccessor ==
  LET tr == LoadTracks
      n == Len(tr)
      k == Place(tr, navResult.cur)
  IN (navResult.op = "next" /\ ~isShuffleMode /\ n > 0)
       => navResult.url = IF k = 0 THEN tr[1] ELSE tr[(k % n) + 1]

\* C9 witness: next was asked at the last of three tracks and wrapped to the first
C9_Witness ==
  /\ navResult.op = "next" /\ ~isShuffleMode
  /\ Len(LoadTracks) = 3
  /\ navResult.cur = LoadTracks[3]
  /\ navResult.url = LoadTracks[1]

\* C10 as stated: with shuffle off and n > 0 tracks, previous returns the track at
\* (i-1) mod n, a key that is not in the catalogue counting as index -1.
C10_PreviousFromMinusOne ==
  LET tr == LoadTracks
      n == Len(tr)
      i == Place(tr, navResult.cur) - 1
  IN (navResult.op = "previous" /\ ~isShuffleMode /\ n > 0)
       => navResult.url = tr[((i - 1 + 2 * n) % n) + 1]

\* C10 amended: with shuffle off and n > 0 tracks, previous returns the track at
\* (i-1) mod n for a current key at index i, and the last track when the key is not in
\* the catalogue.
C10_PreviousIsOrdinalPredecessor ==
  LET tr == LoadTracks
      n == Len(tr)
      k == Place(tr, navResult.cur)
  IN (navResult.op = "previous" /\ ~isShuffleMode /\ n > 0)
       => navResult.url = IF k = 0 THEN tr[n] ELSE tr[((k - 2 + n) % n) + 1]

\* C10 witness: previous was asked with a key that is not among three tracks
C10_Witness ==
  /\ navResult.op = "previous" /\ ~isShuffleMode
  /\ Len(LoadTracks) = 3
  /\ Place(LoadTracks, navResult.cur) = 0
  /\ navResult.url = LoadTracks[3]

\* the urls of the catalogue
CatalogueUrls == {LoadTracks[i] : i \in 1..Len(LoadTracks)}

\* C11: with shuffle on, next and previous return a catalogue track other than the
\* current key when the catalogue has more than one entry, and the single entry when
\* it has exactly one, on every call.
C11_ShuffleAvoidsCurrent ==
  (navResult.op \in {"next", "previous"} /\ isShuffleMode)
    => /\ Len(LoadTracks) > 1 =>
            (navResult.url \in CatalogueUrls /\ navResult.url # navResult.cur)
       /\ Len(LoadTracks) = 1 => navResult.url = LoadTracks[1]

\* C11 witness: shuffling among three tracks from one of them gave another one
C11_Witness ==
  /\ navResult.op = "previous" /\ isShuffleMode
  /\ Len(LoadTracks) = 3
  /\ navResult.cur \in CatalogueUrls
  /\ navResult.url \in CatalogueUrls \ {navResult.cur}

\* C12: next and previous return no track only when the catalogue is empty; for a
\* non-empty catalogue, shuffling or not, for every current key, they return one of
\* its tracks.
C12_NoneOnlyWhenEmpty ==
  navResult.op \in {"next", "previous"}
    => /\ (navResult.url = None) <=> (Len(LoadTracks) = 0)
       /\ Len(LoadTracks) > 0 => navResult.url \in CatalogueUrls

\* C12 witness: next was asked with a key that is not in a non-empty catalogue and
\* answered with one of its tracks
C12_Witness ==
  /\ navResult.op = "next"
  /\ Len(LoadTracks) > 0
  /\ navResult.cur \notin CatalogueUrls
  /\ navResult.url \in CatalogueUrls

\* C13: an incoming entry larger than the whole budget is served but not persisted:
\* the persistent cache never holds an entry for such a track.
C13_OversizeNotPersisted ==
  \A t \in Tracks : blobSize[t] > MaxSizeBytes(settings) => audioblobs[t] = NoEntry

\* C14: when eviction is needed, entries go in increasing order of last access, a
\* read of the cached bytes counting as an access: no entry is evicted in a step that
\* keeps an entry with an older last access.
C14_EvictsLeastRecentlyUsed ==
  [][\A k, u \in Tracks :
       (/\ audioblobs[k].size > 0 /\ audioblobs'[k].size = 0
        /\ audioblobs[u].size > 0 /\ audioblobs'[u] = audioblobs[u])
         => lastAccess[u] >= lastAccess[k]]_vars

\* the put of cacheAudioBlob happens in this step, for a blob that did not fit
\* beside the entries but fits the budget on its own
EvictingPut(i) ==
  /\ tasks[i].pc = "cachePut"
  /\ tasks'[i].pc # "cachePut"
  /\ tasks[i].evict
  /\ blobSize[tasks[i].track] <= MaxSizeBytes(settings)

\* C15: an incoming entry that fits the budget but not beside the existing entries is
\* persisted after older entries are evicted: afterwards it is in the cache and the
\* total size is within the budget.
C15_EvictThenPersist ==
  [][\A i \in 1..Len(tasks) :
       EvictingPut(i) =>
         /\ audioblobs'[tasks[i].track].size = blobSize[tasks[i].track]
         /\ GetAudioCacheSize(audioblobs') <= MaxSizeBytes(settings)]_vars

\* C16: when the fetch for a track fails, resolve ends with the error and without a
\* handle, and leaves the persistent cache and the handle table as they were; the
\* cache is written only by a resolve whose fetch has succeeded.
C16_FetchFailureLeavesNoTrace ==
  /\ [][\A i \in 1..Len(tasks) :
          (tasks[i].pc \in {"fetch", "fetchNC"} /\ tasks'[i].pc = "failed")
            => /\ tasks'[i].url = 0
               /\ UNCHANGED <<audioblobs, blobUrls, urlCount, revoked>>]_vars
  /\ [](\A i \in 1..Len(tasks) : tasks[i].pc = "failed" => tasks[i].url = 0)
  /\ [][\A t \in Tracks :
          (audioblobs'[t] # audioblobs[t] /\ audioblobs'[t].size > 0)
            => \E i \in 1..Len(tasks) : tasks[i].track = t /\ tasks[i].pc = "cachePut"]_vars

\* C16 witness: a resolve has failed while the cache and the handle table hold the
\* entries of other resolves
C16_Witness ==
  /\ \E i \in 1..Len(tasks) : tasks[i].pc = "failed" /\ tasks[i].url = 0
  /\ \E t \in Tracks : audioblobs[t].size > 0 /\ blobUrls[t] # 0
  /\ \E i \in 1..Len(tasks) :
       tasks[i].pc = "failed" /\ audioblobs[tasks[i].track].size = 0
       /\ blobUrls[tasks[i].track] = 0

\* C17: a blob url is never revoked while an engine bound to it exists: whatever
\* revokes (cleanupCurrentTrack, the periodic cleanup, clearAudioCache), every engine
\* that is loading or loaded has a source url that has not been revoked.
C17_NoRevokeWhileInUse ==
  \A e \in 1..Len(engines) :
    engines[e].state \in {"loading", "loaded"} => engines[e].src \notin revoked

\* a step in which the player starts a load, having released the track it was on
ReleaseStep ==
  /\ Len(tasks') > Len(tasks)
  /\ tasks'[Len(tasks')].owner = "player"
  /\ currentTrackUrl # None

\* C18: releasing a track does not revoke its blob url at once, and a resolve of the
\* same track within the grace period (before any run of the periodic cleanup, with
\* no purge) gets the same url from the blob url table, without a cache read or a fetch.
C18_ReleaseKeepsHandle ==
  /\ [][(ReleaseStep /\ blobUrls[currentTrackUrl] # 0)
          => /\ blobUrls[currentTrackUrl] \notin revoked'
             /\ blobUrls'[currentTrackUrl] = blobUrls[currentTrackUrl]]_vars
  /\ [][(/\ Len(tasks') > Len(tasks)
         /\ tasks'[Len(tasks')].owner = "player"
         /\ sweeps = 0
         /\ \A i \in 1..Len(tasks) : tasks[i].owner # "settings")
          => \A i \in 1..Len(tasks) :
               (tasks[i].track = tasks'[Len(tasks')].track /\ tasks[i].url # 0)
                 => /\ tasks'[Len(tasks')].url = tasks[i].url
                    /\ tasks'[Len(tasks')].pc = "resolved"]_vars

\* the track a resolve was started for in this step, None when none was started
Started ==
  IF Len(tasks') > Len(tasks) /\ tasks'[Len(tasks')].owner \in {"player", "direct"}
  THEN tasks'[Len(tasks')].track ELSE None

\* C19: a resolve for a track that has an entry in the blob url table returns the url
\* of that entry at once and sets the entry's lastUsed to now; it reads no cache
\* entry, fetches nothing, writes nothing to the cache and creates no url, neither
\* in that step nor later.
C19_TableHitNoIO ==
  /\ [][(Started # None /\ blobUrls[Started] # 0 /\ blobUrls'[Started] # 0)
          => /\ tasks'[Len(tasks')].url = blobUrls[Started]
             /\ tasks'[Len(tasks')].pc \in {"resolved", "done"}
             /\ blobUrls'[Started] = blobUrls[Started]
             /\ lastUsed'[Started] = sweeps
             /\ UNCHANGED <<audioblobs, lastAccess, clock, urlCount>>]_vars
  /\ [][\A i \in 1..Len(tasks) :
          (tasks[i].url # 0 /\ tasks[i].pc \in {"resolved", "done"})
            => tasks'[i].url = tasks[i].url /\ tasks'[i].pc \in {"resolved", "done"}]_vars

\* C19 witness: after a run of the periodic cleanup a second resolve of a track has
\* been given the url of the first from the table, and the entry's lastUsed is now
C19_Witness ==
  \E i, j \in 1..Len(tasks) :
    /\ i < j
    /\ tasks[i].track = tasks[j].track
    /\ tasks[j].url # 0
    /\ tasks[i].url = tasks[j].url
    /\ tasks[i].pc = "done"
    /\ tasks[j].pc \in {"resolved", "done"}
    /\ blobUrls[tasks[j].track] = tasks[j].url
    /\ sweeps = 1
    /\ lastUsed[tasks[j].track] = 1

\* a step of the debounced progress bar listener
SeekStep == seekReq' # NoPos

TeardownRank(c) ==
  IF c = "clearInterval" THEN 1
  ELSE IF c = "stop" THEN 2
  ELSE IF c = "unload" THEN 3
  ELSE IF c = "revoke" THEN 4
  ELSE 0

\* a step in which the player issues the resolve for a track
PlayerLoadStep ==
  /\ Len(tasks') > Len(tasks)
  /\ tasks'[Len(tasks')].owner = "player"

\* C21: a handler that starts a load tears the existing session down first, in the
\* order clearInterval, stop, unload, revoke, and issues every resolve only after the
\* last teardown call; whatever the session had (a timer, a bound engine, a blob url
\* of the current track) is cancelled, stopped and unloaded, revoked in that step.
C21_TeardownBeforeResolve ==
  /\ [](\A i, j \in 1..Len(log) :
          i < j => /\ (log[i] = "resolve" => log[j] = "resolve")
                   /\ (TeardownRank(log[j]) > 0 => TeardownRank(log[i]) <= TeardownRank(log[j])))
  /\ [][PlayerLoadStep =>
          /\ intervalId # 0 => /\ intervalId \notin timers'
                               /\ \E i \in 1..Len(log') : log'[i] = "clearInterval"
          /\ howl # 0 => /\ engines'[howl].state = "unloaded"
                         /\ \E i \in 1..Len(log') : log'[i] = "stop"
                         /\ \E i \in 1..Len(log') : log'[i] = "unload"
          /\ (currentTrackUrl # None /\ blobUrls[currentTrackUrl] # 0)
               => /\ blobUrls[currentTrackUrl] \in revoked'
                  /\ \E i \in 1..Len(log') : log'[i] = "revoke"]_vars

\* C21 witness: a selection made while a track played has cancelled the timer, stopped
\* and unloaded the engine, revoked the url and then issued the resolve
C21_Witness ==
  /\ log = <<"clearInterval", "stop", "unload", "revoke", "resolve">>
  /\ howl = 0
  /\ isTransitioning
  /\ tasks[Len(tasks)].pc = "lookup"

\* C22: when a sound ends with repeat on, that same engine plays again, the navigator
\* and getAudioBlobUrl are not called, and the current track of the controller and of
\* the store stay as they are.
C22_RepeatRestartsSameEngine ==
  [][ended'.op = "repeat" =>
       /\ engines'[ended'.engine].playing
       /\ \A i \in 1..Len(log') : log'[i] # "resolve"
       /\ UNCHANGED <<storeTrack, currentTrackUrl, howl, tasks, blobUrls, urlCount,
                      audioblobs, navResult>>]_vars

\* loads of track n that have not ended
InFlight(n) == {i \in 1..Len(tasks) : tasks[i].track = n /\ tasks[i].pc \notin {"done", "failed"}}

\* C23: when a sound has ended with repeat off and the navigator returned a track, a
\* session for that track is under way: a load of it is in flight, or an engine
\* constructed for it is loading or playing.
C23_EndStartsReturnedTrack ==
  (ended.op = "next" /\ ended.next \notin {None, ""})
    => \/ InFlight(ended.next) # {}
       \/ \E e \in 1..Len(engines) :
            /\ engines[e].track = ended.next
            /\ engines[e].state = "loading" \/ EnginePlaying(engines[e])

\* C24: when a sound has ended with repeat off and the navigator returned no track,
\* the controller is idle: the store has no current track and isPlaying = FALSE, the
\* engine that ended is unloaded, no engine is bound, isTransitioning is FALSE and
\* console.error was not called.
C24_EndOfEmptyCatalogueIsIdle ==
  (ended.op = "next" /\ ended.next \in {None, ""})
    => /\ storeTrack = None
       /\ ~storeIsPlaying
       /\ currentTrackUrl = None
       /\ howl = 0
       /\ engines[ended.engine].state = "unloaded"
       /\ ~isTransitioning
       /\ errors = 0

\* C25: when the engine of the track being loaded reports a load error, the controller
\* is idle after that step: no engine is bound any more and isTransitioning is FALSE.
C25_LoadErrorUnbindsEngine ==
  [][\A e \in 1..Len(engines) :
       (howl = e /\ engines[e].state = "loading" /\ engines'[e].state = "error")
         => howl' = 0 /\ ~isTransitioning']_vars

\* C26: the progress timer a session started is not scheduled any more once that
\* session's engine has been torn down, and no position update is issued for a track
\* other than the one the store has as current.
C26_NoTimerAfterTeardown ==
  /\ [](\A e \in timers : engines[e].state # "unloaded")
  /\ [][(Len(tasks') > Len(tasks) /\ tasks'[Len(tasks')].pc = "savePos")
          => tasks'[Len(tasks')].track = storeTrack]_vars

\* the entries the step removed from the audio cache
Evicted == {k \in Tracks : audioblobs[k].size > 0 /\ audioblobs'[k].size = 0}

\* C27: an evicting put removes exactly the shortest prefix of the entries, oldest
\* first, after which the entries left and the incoming one fit the budget: what is
\* removed is older than what is kept, afterwards the total is within the budget, and
\* with the last removed entry put back it would not be.
C27_EvictsShortestPrefix ==
  [][\A i \in 1..Len(tasks) :
       (EvictingPut(i) /\ audioblobs[tasks[i].track].size = 0) =>
         /\ \A k \in Evicted : \A u \in Tracks \ Evicted :
              audioblobs[u].size > 0 => audioblobs[k].timestamp <= audioblobs[u].timestamp
         /\ GetAudioCacheSize(audioblobs') <= MaxSizeBytes(settings)
         /\ \A k \in Evicted :
              (\A u \in Evicted : audioblobs[u].timestamp <= audioblobs[k].timestamp)
                => GetAudioCacheSize(audioblobs') + audioblobs[k].size
                     > MaxSizeBytes(settings)]_vars

\* C28: when two resolves of one track have both returned, there is one live handle
\* for the track: the handle each caller received is the one in the blob url table
\* (or has been revoked since), and every handle created is in the table or revoked.
C28_InterleavedResolvesOneHandle ==
  \A i, j \in 1..Len(tasks) :
    (/\ i < j
     /\ tasks[i].track = tasks[j].track
     /\ tasks[i].pc \in {"done", "resolved"} /\ tasks[i].url # 0
     /\ tasks[j].pc \in {"done", "resolved"} /\ tasks[j].url # 0)
      => /\ \A k \in {i, j} :
              tasks[k].url \in revoked \/ blobUrls[tasks[k].track] = tasks[k].url
         /\ \A u \in 1..urlCount : u \in revoked \/ \E t \in Tracks : blobUrls[t] = u

\* loadPlaybackPosition fails for task i in this step
ReadFailStep(i) == tasks[i].pc = "resolved" /\ tasks'[i].pc = "doneReadFailed"

\* savePlaybackPosition fails for task i in this step
WriteFailStep(i) == tasks[i].pc = "savePos" /\ tasks'[i].pc = "saveFailed"

\* the engines of the load whose read of the stored position failed: those of its
\* selection and track that were constructed without a saved position
ReadFailedEngines(i) ==
  {e \in 1..Len(engines) : /\ engines[e].sel = tasks[i].sel
                           /\ engines[e].track = tasks[i].track
                           /\ engines[e].saved = NoPos}

\* C29: a failure of the position store does not stop playback.  When the read of the
\* stored position fails, the load goes on: the engine for the track is constructed
\* and bound with no saved position and nothing else of the controller changes; that
\* engine plays from offset 0, i.e. it is never sought while only the controller
\* moves it.  When a write fails, the store, the controller, the engines and the
\* stored positions stay as they are.
C29_PositionStoreFailureIsNotFatal ==
  /\ [][\A i \in 1..Len(tasks) :
          ReadFailStep(i) =>
            /\ Len(engines') = Len(engines) + 1
            /\ howl' = Len(engines')
            /\ engines'[howl'].track = tasks[i].track
            /\ engines'[howl'].state = "loading"
            /\ engines'[howl'].saved = NoPos
            /\ currentTrackUrl' = tasks[i].track
            /\ \A e \in 1..Len(engines) : engines'[e] = engines[e]
            /\ UNCHANGED <<storeVars, isTransitioning, intervalId, timers, queue, playback>>]_vars
  /\ [](\A i \in 1..Len(tasks) :
          tasks[i].pc = "doneReadFailed" =>
            \A e \in ReadFailedEngines(i) : engines[e].pos = NoPos)
  /\ [][\A i \in 1..Len(tasks) :
          WriteFailStep(i) =>
            UNCHANGED <<storeVars, howl, currentTrackUrl, isTransitioning, intervalId,
                        timers, engines, queue, playback>>]_vars

\* cacheAudioBlob fails for task i in this step
CacheFailStep(i) == tasks[i].pc = "cachePut" /\ tasks'[i].pc # "cachePut" /\ errors' > 0

\* C30: when the eviction or the write into the audio cache fails after the fetch has
\* succeeded, getAudioBlobUrl still returns a handle: a fresh blob url that is in
\* the table and not revoked, with the loading controller left as it was; the entry
\* of the track is not written, and entries are at most removed.
C30_CacheFailureStillServesHandle ==
  [][\A i \in 1..Len(tasks) :
       CacheFailStep(i) =>
         /\ tasks'[i].pc = AfterResolve(tasks[i])
         /\ tasks'[i].url = urlCount'
         /\ urlCount' = urlCount + 1
         /\ blobUrls'[tasks[i].track] = tasks'[i].url
         /\ tasks'[i].url \notin revoked'
         /\ audioblobs'[tasks[i].track] \in {audioblobs[tasks[i].track], NoEntry}
         /\ \A u \in Tracks : audioblobs'[u] \in {audioblobs[u], NoEntry}
         /\ UNCHANGED <<storeVars, howl, currentTrackUrl, isTransitioning, engines>>]_vars

\* the put for the track being loaded has just failed and the load holds its handle
C30_Witness ==
  \E i \in 1..Len(tasks) :
    /\ errors = 1
    /\ tasks[i].pc = "resolved"
    /\ tasks[i].url # 0
    /\ blobUrls[tasks[i].track] = tasks[i].url
    /\ tasks[i].url \notin revoked
    /\ audioblobs[tasks[i].track].size = 0
    /\ storeTrack = tasks[i].track

\* C31: when a session with a bound engine is torn down, by a new selection or by
\* destroy(), the teardown writes the engine's offset to the position store under the
\* session's track: the step that unloads the bound engine issues a
\* savePlaybackPosition for that track, or the stored position is written in it.
C31_TeardownWritesPosition ==
  [][(howl # 0 /\ engines[howl].state # "unloaded" /\ engines'[howl].state = "unloaded")
       => \/ \E j \in (Len(tasks) + 1)..Len(tasks') :
               tasks'[j].pc = "savePos" /\ tasks'[j].track = engines[howl].track
          \/ playback'[engines[howl].track] # playback[engines[howl].track]]_vars

\* C32: at session start the stored position is applied to the engine only if it lies
\* within the bounds of the track: when the bound engine reports loaded, a saved
\* position within 0..duration is the offset it starts from, and with a saved position
\* outside of them no seek is applied and it starts at offset 0.
C32_StoredPositionWithinBounds ==
  [][\A e \in 1..Len(engines) :
       (/\ howl = e /\ engines[e].state = "loading" /\ engines'[e].state = "loaded"
        /\ engines[e].saved # NoPos /\ ~engines[e].started)
         => IF engines[e].saved >= 0 /\ engines[e].saved <= TrackDuration
            THEN engines'[e].pos = engines[e].saved /\ engines'[e].posAtStart = engines[e].saved
            ELSE engines'[e].pos = engines[e].pos /\ engines'[e].posAtStart = engines[e].pos]_vars

\* C33: optimizeDatabase deletes exactly the position records whose timestamp is older
\* than the retention window: a record that disappears was older than the window when
\* it was deleted, once the run is over no record older than the window is left, and
\* the steps of the run change nothing but the 'playback' store.
C33_PruneDeletesExactlyOldRecords ==
  /\ [][\A t \in Tracks :
          (playback[t] # NoPos /\ playback'[t] = NoPos) => playbackTime[t] = "old"]_vars
  /\ [](prune.pc = "done" => \A t \in Tracks : playbackTime[t] # "old")
  /\ [][prune' # prune =>
          /\ \A t \in Tracks : playback'[t] \in {playback[t], NoPos}
          /\ UNCHANGED <<storeVars, playerVars, modeVars, urlCount, cacheVars, trackDb>>]_vars

\* C34: when the bound engine reports play the controller writes isPlaying = TRUE, when
\* it reports pause or stop it writes FALSE, and isPlaying becomes TRUE in no other
\* case: only in a step that delivers a play report while an engine is bound.
C34_IsPlayingFollowsBoundEngine ==
  /\ [][Len(queue') < Len(queue) => storeIsPlaying' = (Head(queue) = "play")]_vars
  /\ [][(storeIsPlaying' /\ ~storeIsPlaying)
          => (queue # <<>> /\ Head(queue) = "play" /\ Len(queue') < Len(queue) + MaxQueue
              /\ howl # 0)]_vars

\* C35: whenever an engine is bound, the controller's current track is the track that
\* engine was constructed for; so every position write the progress timer issues is
\* keyed by the track of the bound, playing engine whose offset it carries.
C35_CurrentTrackIsBoundEnginesTrack ==
  /\ [](howl # 0 => currentTrackUrl = engines[howl].track)
  /\ [][(Len(tasks') > Len(tasks) /\ tasks'[Len(tasks')].pc = "savePos")
          => /\ howl # 0
             /\ EnginePlaying(engines[howl])
             /\ tasks'[Len(tasks')].track = engines[howl].track]_vars

\* the second session's engine plays and the timer has issued a position write for it
C35_Witness ==
  /\ howl > 1
  /\ EnginePlaying(engines[howl])
  /\ engines[howl].track = "B"
  /\ currentTrackUrl = "B"
  /\ \E i \in 1..Len(tasks) : tasks[i].pc = "savePos" /\ tasks[i].track = "B"

\* the loads of the player that are in flight: suspended in loadNewTrack, or with an
\* engine that has reported neither loaded nor a load error and is not torn down
LoadsInFlight ==
  {i \in 1..Len(tasks) : /\ tasks[i].owner = "player"
                         /\ tasks[i].pc \in {"lookup", "fetch", "fetchNC", "cacheCheck",
                                             "cachePut", "resolved"}}

EnginesLoading == {e \in 1..Len(engines) : engines[e].state = "loading"}

\* C36: isTransitioning is TRUE in every state in which a load is in flight, also when
\* several selections overlap, so that next, previous, play/pause and seek are
\* ignored during every load.
C36_TransitioningWhileLoadInFlight ==
  (LoadsInFlight # {} \/ EnginesLoading # {}) => isTransitioning

\* C37: after any sequence of selections, when every fetch completes and every engine
\* that is not torn down reports loaded or a load error, isTransitioning becomes FALSE
\* again: next and previous are not disabled forever.
C37_TransitioningEventuallyFalse == isTransitioning ~> ~isTransitioning

\* overlapping selections have all been worked off, one of them with a failure, and
\* the flag is down
C37_Witness ==
  /\ selections >= 2
  /\ Len(tasks) = MaxLoads
  /\ ~Pending
  /\ ~isTransitioning
  /\ \E i \in 1..Len(tasks) : tasks[i].pc = "failed"
  /\ \E e \in 1..Len(engines) : engines[e].state = "unloaded"

\* C38: once destroy() has been called, no engine is bound any more, no progress timer
\* is started and no engine starts to play, also when a load that was in flight at
\* the call completes afterwards.
C38_NothingStartsAfterDestroy ==
  [][~subscribed =>
       /\ howl' = 0
       /\ timers' \subseteq timers
       /\ \A e \in 1..Len(engines) : engines'[e].playing => engines[e].playing]_vars

\* C39: after a natural end with repeat off that starts no new session, isPlaying
\* does not stay TRUE: when the onend handler has run, nothing is left to run and no
\* engine plays, the store does not say that something is playing.
C39_NotPlayingAfterEnd ==
  (/\ ended.op = "next"
   /\ ~Pending
   /\ \A e \in 1..Len(engines) : ~EnginePlaying(engines[e]))
    => ~storeIsPlaying

\* the urls of the tracks that are not marked deleted right now
LiveUrls == {trackDb[i].url : i \in {j \in 1..Len(trackDb) : ~trackDb[j].deleted}}

\* C40: a track marked deleted is never returned by next or previous, shuffling or
\* not: in every state, deletions in between included, whatever the current key, each
\* answer the navigator can give is no track or a track not deleted at that moment,
\* and each answer it gives is one.
C40_DeletedNeverReturned ==
  /\ [](\A cur \in Tracks \cup {None} :
          \A r \in GetNextTrack(cur) \cup GetPreviousTrack(cur) :
            r = None \/ r \in LiveUrls)
  /\ [][(trackDb' = trackDb /\ navResult'.op # "none")
          => (navResult'.url = None \/ navResult'.url \in LiveUrls)]_vars

\* C40 witness: of three tracks the middle one is deleted, and next, not shuffling,
\* asked with the first one answered the third
C40_Witness ==
  /\ navResult.op = "next" /\ ~isShuffleMode
  /\ Len(trackDb) = 3
  /\ ~trackDb[1].deleted /\ trackDb[2].deleted /\ ~trackDb[3].deleted
  /\ navResult.cur = trackDb[1].url
  /\ navResult.url = trackDb[3].url

====
